---- MODULE Spec2Model ----
(***************************************************************************)
(* A model of app.py, the Streamlit quiz generator: the text utilities     *)
(* (extract_text_from_file, generate_summary, extract_keywords,            *)
(* has_enough_context), the Gemini client wrapper generate_questions and   *)
(* the top-to-bottom script run that Streamlit performs per interaction.   *)
(*                                                                         *)
(* A Python str is a sequence of Unicode code points, a bytes object a     *)
(* sequence of integers 0..255.  String literals of the source are written *)
(* as their code points with the text in a comment.                        *)
(***************************************************************************)
EXTENDS Integers, Sequences, FiniteSets, TLC

VARIABLES
    pc,             \* position of the script run (or of the function under test)
    config,         \* outcome of the startup configuration (lines 17-34)
    uploaded_file,  \* value of st.file_uploader (line 106)
    text_input,     \* value of st.text_area (line 107)
    text_data,      \* the text blob (lines 109-113)
    summary,        \* line 117
    num_questions,  \* line 121
    difficulty,     \* line 122
    pressed,        \* value of st.button (line 124)
    path,           \* which branch of line 131 was taken
    keywords,       \* line 156
    prompt,         \* lines 134 / 161
    quiz,           \* lines 147 / 172
    service,        \* what the external service does with the request of this run
    sent,           \* prompts received by model.generate_content in this run
    shown,          \* what the run has put on the page, in order
    calls,          \* utilities invoked in this run, in order, with their text argument
    arg             \* the numeric argument of the function under test

vars == <<pc, config, uploaded_file, text_input, text_data, summary, num_questions,
          difficulty, pressed, path, keywords, prompt, quiz, service, sent, shown,
          calls, arg>>

(***************************************************************************)
(* Bounds of the model.                                                    *)
(***************************************************************************)
MaxPieces == 3      \* pieces concatenated into a text under test
MaxArg == 3         \* largest max_sentences / max_keywords under test
MaxParts == 2       \* parts concatenated into an upload or a pasted text

(***************************************************************************)
(* Python built-ins used by the source.                                    *)
(***************************************************************************)
SetMin(S) == CHOOSE x \in S : \A y \in S : x <= y

\* str.isspace() of one character
IsSpace(c) ==
    \/ c \in 9..13
    \/ c \in 28..32
    \/ c \in {133, 160, 5760}
    \/ c \in 8192..8202
    \/ c \in {8232, 8233, 8239, 8287, 12288}

\* the simple lower-case mapping of the interpreter's Unicode database:
\* <<first, last, step, delta>> maps first, first + step, ..., last to itself + delta
LowerRanges ==
    {
    <<65, 90, 1, 32>>, <<192, 214, 1, 32>>, <<216, 222, 1, 32>>, <<256, 302, 2,
    1>>, <<306, 310, 2, 1>>, <<313, 327, 2, 1>>, <<330, 374, 2, 1>>, <<376, 376,
    1, -121>>, <<377, 381, 2, 1>>, <<385, 385, 1, 210>>, <<386, 388, 2, 1>>,
    <<390, 390, 1, 206>>, <<391, 391, 1, 1>>, <<393, 394, 1, 205>>, <<395, 395,
    1, 1>>, <<398, 398, 1, 79>>, <<399, 399, 1, 202>>, <<400, 400, 1, 203>>,
    <<401, 401, 1, 1>>, <<403, 403, 1, 205>>, <<404, 404, 1, 207>>, <<406, 406,
    1, 211>>, <<407, 407, 1, 209>>, <<408, 408, 1, 1>>, <<412, 412, 1, 211>>,
    <<413, 413, 1, 213>>, <<415, 415, 1, 214>>, <<416, 420, 2, 1>>, <<422, 422,
    1, 218>>, <<423, 423, 1, 1>>, <<425, 425, 1, 218>>, <<428, 428, 1, 1>>,
    <<430, 430, 1, 218>>, <<431, 431, 1, 1>>, <<433, 434, 1, 217>>, <<435, 437,
    2, 1>>, <<439, 439, 1, 219>>, <<440, 440, 1, 1>>, <<444, 444, 1, 1>>, <<452,
    452, 1, 2>>, <<453, 453, 1, 1>>, <<455, 455, 1, 2>>, <<456, 456, 1, 1>>,
    <<458, 458, 1, 2>>, <<459, 475, 2, 1>>, <<478, 494, 2, 1>>, <<497, 497, 1,
    2>>, <<498, 500, 2, 1>>, <<502, 502, 1, -97>>, <<503, 503, 1, -56>>, <<504,
    542, 2, 1>>, <<544, 544, 1, -130>>, <<546, 562, 2, 1>>, <<570, 570, 1,
    10795>>, <<571, 571, 1, 1>>, <<573, 573, 1, -163>>, <<574, 574, 1, 10792>>,
    <<577, 577, 1, 1>>, <<579, 579, 1, -195>>, <<580, 580, 1, 69>>, <<581, 581,
    1, 71>>, <<582, 590, 2, 1>>, <<880, 882, 2, 1>>, <<886, 886, 1, 1>>, <<895,
    895, 1, 116>>, <<902, 902, 1, 38>>, <<904, 906, 1, 37>>, <<908, 908, 1,
    64>>, <<910, 911, 1, 63>>, <<913, 929, 1, 32>>, <<931, 939, 1, 32>>, <<975,
    975, 1, 8>>, <<984, 1006, 2, 1>>, <<1012, 1012, 1, -60>>, <<1015, 1015, 1,
    1>>, <<1017, 1017, 1, -7>>, <<1018, 1018, 1, 1>>, <<1021, 1023, 1, -130>>,
    <<1024, 1039, 1, 80>>, <<1040, 1071, 1, 32>>, <<1120, 1152, 2, 1>>, <<1162,
    1214, 2, 1>>, <<1216, 1216, 1, 15>>, <<1217, 1229, 2, 1>>, <<1232, 1326, 2,
    1>>, <<1329, 1366, 1, 48>>, <<4256, 4293, 1, 7264>>, <<4295, 4295, 1,
    7264>>, <<4301, 4301, 1, 7264>>, <<5024, 5103, 1, 38864>>, <<5104, 5109, 1,
    8>>, <<7312, 7354, 1, -3008>>, <<7357, 7359, 1, -3008>>, <<7680, 7828, 2,
    1>>, <<7838, 7838, 1, -7615>>, <<7840, 7934, 2, 1>>, <<7944, 7951, 1, -8>>,
    <<7960, 7965, 1, -8>>, <<7976, 7983, 1, -8>>, <<7992, 7999, 1, -8>>, <<8008,
    8013, 1, -8>>, <<8025, 8031, 2, -8>>, <<8040, 8047, 1, -8>>, <<8072, 8079,
    1, -8>>, <<8088, 8095, 1, -8>>, <<8104, 8111, 1, -8>>, <<8120, 8121, 1,
    -8>>, <<8122, 8123, 1, -74>>, <<8124, 8124, 1, -9>>, <<8136, 8139, 1, -86>>,
    <<8140, 8140, 1, -9>>, <<8152, 8153, 1, -8>>, <<8154, 8155, 1, -100>>,
    <<8168, 8169, 1, -8>>, <<8170, 8171, 1, -112>>, <<8172, 8172, 1, -7>>,
    <<8184, 8185, 1, -128>>, <<8186, 8187, 1, -126>>, <<8188, 8188, 1, -9>>,
    <<8486, 8486, 1, -7517>>, <<8490, 8490, 1, -8383>>, <<8491, 8491, 1,
    -8262>>, <<8498, 8498, 1, 28>>, <<8544, 8559, 1, 16>>, <<8579, 8579, 1, 1>>,
    <<9398, 9423, 1, 26>>, <<11264, 11311, 1, 48>>, <<11360, 11360, 1, 1>>,
    <<11362, 11362, 1, -10743>>, <<11363, 11363, 1, -3814>>, <<11364, 11364, 1,
    -10727>>, <<11367, 11371, 2, 1>>, <<11373, 11373, 1, -10780>>, <<11374,
    11374, 1, -10749>>, <<11375, 11375, 1, -10783>>, <<11376, 11376, 1,
    -10782>>, <<11378, 11378, 1, 1>>, <<11381, 11381, 1, 1>>, <<11390, 11391, 1,
    -10815>>, <<11392, 11490, 2, 1>>, <<11499, 11501, 2, 1>>, <<11506, 11506, 1,
    1>>, <<42560, 42604, 2, 1>>, <<42624, 42650, 2, 1>>, <<42786, 42798, 2, 1>>,
    <<42802, 42862, 2, 1>>, <<42873, 42875, 2, 1>>, <<42877, 42877, 1, -35332>>,
    <<42878, 42886, 2, 1>>, <<42891, 42891, 1, 1>>, <<42893, 42893, 1, -42280>>,
    <<42896, 42898, 2, 1>>, <<42902, 42920, 2, 1>>, <<42922, 42922, 1, -42308>>,
    <<42923, 42923, 1, -42319>>, <<42924, 42924, 1, -42315>>, <<42925, 42925, 1,
    -42305>>, <<42926, 42926, 1, -42308>>, <<42928, 42928, 1, -42258>>, <<42929,
    42929, 1, -42282>>, <<42930, 42930, 1, -42261>>, <<42931, 42931, 1, 928>>,
    <<42932, 42946, 2, 1>>, <<42948, 42948, 1, -48>>, <<42949, 42949, 1,
    -42307>>, <<42950, 42950, 1, -35384>>, <<42951, 42953, 2, 1>>, <<42960,
    42960, 1, 1>>, <<42966, 42968, 2, 1>>, <<42997, 42997, 1, 1>>, <<65313,
    65338, 1, 32>>, <<66560, 66599, 1, 40>>, <<66736, 66771, 1, 40>>, <<66928,
    66938, 1, 39>>, <<66940, 66954, 1, 39>>, <<66956, 66962, 1, 39>>, <<66964,
    66965, 1, 39>>, <<68736, 68786, 1, 64>>, <<71840, 71871, 1, 32>>, <<93760,
    93791, 1, 32>>, <<125184, 125217, 1, 34>>
    }

\* the code points with the property Cased, as <<first, last>>
CasedRanges ==
    {
    <<65, 90>>, <<97, 122>>, <<170, 170>>, <<181, 181>>, <<186, 186>>, <<192,
    214>>, <<216, 246>>, <<248, 442>>, <<444, 447>>, <<452, 659>>, <<661, 696>>,
    <<704, 705>>, <<736, 740>>, <<837, 837>>, <<880, 883>>, <<886, 887>>, <<890,
    893>>, <<895, 895>>, <<902, 902>>, <<904, 906>>, <<908, 908>>, <<910, 929>>,
    <<931, 1013>>, <<1015, 1153>>, <<1162, 1327>>, <<1329, 1366>>, <<1376,
    1416>>, <<4256, 4293>>, <<4295, 4295>>, <<4301, 4301>>, <<4304, 4346>>,
    <<4349, 4351>>, <<5024, 5109>>, <<5112, 5117>>, <<7296, 7304>>, <<7312,
    7354>>, <<7357, 7359>>, <<7424, 7615>>, <<7680, 7957>>, <<7960, 7965>>,
    <<7968, 8005>>, <<8008, 8013>>, <<8016, 8023>>, <<8025, 8025>>, <<8027,
    8027>>, <<8029, 8029>>, <<8031, 8061>>, <<8064, 8116>>, <<8118, 8124>>,
    <<8126, 8126>>, <<8130, 8132>>, <<8134, 8140>>, <<8144, 8147>>, <<8150,
    8155>>, <<8160, 8172>>, <<8178, 8180>>, <<8182, 8188>>, <<8305, 8305>>,
    <<8319, 8319>>, <<8336, 8348>>, <<8450, 8450>>, <<8455, 8455>>, <<8458,
    8467>>, <<8469, 8469>>, <<8473, 8477>>, <<8484, 8484>>, <<8486, 8486>>,
    <<8488, 8488>>, <<8490, 8493>>, <<8495, 8500>>, <<8505, 8505>>, <<8508,
    8511>>, <<8517, 8521>>, <<8526, 8526>>, <<8544, 8575>>, <<8579, 8580>>,
    <<9398, 9449>>, <<11264, 11492>>, <<11499, 11502>>, <<11506, 11507>>,
    <<11520, 11557>>, <<11559, 11559>>, <<11565, 11565>>, <<42560, 42605>>,
    <<42624, 42653>>, <<42786, 42887>>, <<42891, 42894>>, <<42896, 42954>>,
    <<42960, 42961>>, <<42963, 42963>>, <<42965, 42969>>, <<42997, 42998>>,
    <<43000, 43002>>, <<43824, 43866>>, <<43868, 43880>>, <<43888, 43967>>,
    <<64256, 64262>>, <<64275, 64279>>, <<65313, 65338>>, <<65345, 65370>>,
    <<66560, 66639>>, <<66736, 66771>>, <<66776, 66811>>, <<66928, 66938>>,
    <<66940, 66954>>, <<66956, 66962>>, <<66964, 66965>>, <<66967, 66977>>,
    <<66979, 66993>>, <<66995, 67001>>, <<67003, 67004>>, <<67456, 67456>>,
    <<67459, 67461>>, <<67463, 67504>>, <<67506, 67514>>, <<68736, 68786>>,
    <<68800, 68850>>, <<71840, 71903>>, <<93760, 93823>>, <<119808, 119892>>,
    <<119894, 119964>>, <<119966, 119967>>, <<119970, 119970>>, <<119973,
    119974>>, <<119977, 119980>>, <<119982, 119993>>, <<119995, 119995>>,
    <<119997, 120003>>, <<120005, 120069>>, <<120071, 120074>>, <<120077,
    120084>>, <<120086, 120092>>, <<120094, 120121>>, <<120123, 120126>>,
    <<120128, 120132>>, <<120134, 120134>>, <<120138, 120144>>, <<120146,
    120485>>, <<120488, 120512>>, <<120514, 120538>>, <<120540, 120570>>,
    <<120572, 120596>>, <<120598, 120628>>, <<120630, 120654>>, <<120656,
    120686>>, <<120688, 120712>>, <<120714, 120744>>, <<120746, 120770>>,
    <<120772, 120779>>, <<122624, 122633>>, <<122635, 122654>>, <<125184,
    125251>>, <<127280, 127305>>, <<127312, 127337>>, <<127344, 127369>>
    }

\* the code points with the property Case_Ignorable, as <<first, last>>
CaseIgnorableRanges ==
    {
    <<39, 39>>, <<46, 46>>, <<58, 58>>, <<94, 94>>, <<96, 96>>, <<168, 168>>,
    <<173, 173>>, <<175, 175>>, <<180, 180>>, <<183, 184>>, <<688, 879>>, <<884,
    885>>, <<890, 890>>, <<900, 901>>, <<903, 903>>, <<1155, 1161>>, <<1369,
    1369>>, <<1375, 1375>>, <<1425, 1469>>, <<1471, 1471>>, <<1473, 1474>>,
    <<1476, 1477>>, <<1479, 1479>>, <<1524, 1524>>, <<1536, 1541>>, <<1552,
    1562>>, <<1564, 1564>>, <<1600, 1600>>, <<1611, 1631>>, <<1648, 1648>>,
    <<1750, 1757>>, <<1759, 1768>>, <<1770, 1773>>, <<1807, 1807>>, <<1809,
    1809>>, <<1840, 1866>>, <<1958, 1968>>, <<2027, 2037>>, <<2042, 2042>>,
    <<2045, 2045>>, <<2070, 2093>>, <<2137, 2139>>, <<2184, 2184>>, <<2192,
    2193>>, <<2200, 2207>>, <<2249, 2306>>, <<2362, 2362>>, <<2364, 2364>>,
    <<2369, 2376>>, <<2381, 2381>>, <<2385, 2391>>, <<2402, 2403>>, <<2417,
    2417>>, <<2433, 2433>>, <<2492, 2492>>, <<2497, 2500>>, <<2509, 2509>>,
    <<2530, 2531>>, <<2558, 2558>>, <<2561, 2562>>, <<2620, 2620>>, <<2625,
    2626>>, <<2631, 2632>>, <<2635, 2637>>, <<2641, 2641>>, <<2672, 2673>>,
    <<2677, 2677>>, <<2689, 2690>>, <<2748, 2748>>, <<2753, 2757>>, <<2759,
    2760>>, <<2765, 2765>>, <<2786, 2787>>, <<2810, 2815>>, <<2817, 2817>>,
    <<2876, 2876>>, <<2879, 2879>>, <<2881, 2884>>, <<2893, 2893>>, <<2901,
    2902>>, <<2914, 2915>>, <<2946, 2946>>, <<3008, 3008>>, <<3021, 3021>>,
    <<3072, 3072>>, <<3076, 3076>>, <<3132, 3132>>, <<3134, 3136>>, <<3142,
    3144>>, <<3146, 3149>>, <<3157, 3158>>, <<3170, 3171>>, <<3201, 3201>>,
    <<3260, 3260>>, <<3263, 3263>>, <<3270, 3270>>, <<3276, 3277>>, <<3298,
    3299>>, <<3328, 3329>>, <<3387, 3388>>, <<3393, 3396>>, <<3405, 3405>>,
    <<3426, 3427>>, <<3457, 3457>>, <<3530, 3530>>, <<3538, 3540>>, <<3542,
    3542>>, <<3633, 3633>>, <<3636, 3642>>, <<3654, 3662>>, <<3761, 3761>>,
    <<3764, 3772>>, <<3782, 3782>>, <<3784, 3789>>, <<3864, 3865>>, <<3893,
    3893>>, <<3895, 3895>>, <<3897, 3897>>, <<3953, 3966>>, <<3968, 3972>>,
    <<3974, 3975>>, <<3981, 3991>>, <<3993, 4028>>, <<4038, 4038>>, <<4141,
    4144>>, <<4146, 4151>>, <<4153, 4154>>, <<4157, 4158>>, <<4184, 4185>>,
    <<4190, 4192>>, <<4209, 4212>>, <<4226, 4226>>, <<4229, 4230>>, <<4237,
    4237>>, <<4253, 4253>>, <<4348, 4348>>, <<4957, 4959>>, <<5906, 5908>>,
    <<5938, 5939>>, <<5970, 5971>>, <<6002, 6003>>, <<6068, 6069>>, <<6071,
    6077>>, <<6086, 6086>>, <<6089, 6099>>, <<6103, 6103>>, <<6109, 6109>>,
    <<6155, 6159>>, <<6211, 6211>>, <<6277, 6278>>, <<6313, 6313>>, <<6432,
    6434>>, <<6439, 6440>>, <<6450, 6450>>, <<6457, 6459>>, <<6679, 6680>>,
    <<6683, 6683>>, <<6742, 6742>>, <<6744, 6750>>, <<6752, 6752>>, <<6754,
    6754>>, <<6757, 6764>>, <<6771, 6780>>, <<6783, 6783>>, <<6823, 6823>>,
    <<6832, 6862>>, <<6912, 6915>>, <<6964, 6964>>, <<6966, 6970>>, <<6972,
    6972>>, <<6978, 6978>>, <<7019, 7027>>, <<7040, 7041>>, <<7074, 7077>>,
    <<7080, 7081>>, <<7083, 7085>>, <<7142, 7142>>, <<7144, 7145>>, <<7149,
    7149>>, <<7151, 7153>>, <<7212, 7219>>, <<7222, 7223>>, <<7288, 7293>>,
    <<7376, 7378>>, <<7380, 7392>>, <<7394, 7400>>, <<7405, 7405>>, <<7412,
    7412>>, <<7416, 7417>>, <<7468, 7530>>, <<7544, 7544>>, <<7579, 7679>>,
    <<8125, 8125>>, <<8127, 8129>>, <<8141, 8143>>, <<8157, 8159>>, <<8173,
    8175>>, <<8189, 8190>>, <<8203, 8207>>, <<8216, 8217>>, <<8228, 8228>>,
    <<8231, 8231>>, <<8234, 8238>>, <<8288, 8292>>, <<8294, 8303>>, <<8305,
    8305>>, <<8319, 8319>>, <<8336, 8348>>, <<8400, 8432>>, <<11388, 11389>>,
    <<11503, 11505>>, <<11631, 11631>>, <<11647, 11647>>, <<11744, 11775>>,
    <<11823, 11823>>, <<12293, 12293>>, <<12330, 12333>>, <<12337, 12341>>,
    <<12347, 12347>>, <<12441, 12446>>, <<12540, 12542>>, <<40981, 40981>>,
    <<42232, 42237>>, <<42508, 42508>>, <<42607, 42610>>, <<42612, 42621>>,
    <<42623, 42623>>, <<42652, 42655>>, <<42736, 42737>>, <<42752, 42785>>,
    <<42864, 42864>>, <<42888, 42890>>, <<42994, 42996>>, <<43000, 43001>>,
    <<43010, 43010>>, <<43014, 43014>>, <<43019, 43019>>, <<43045, 43046>>,
    <<43052, 43052>>, <<43204, 43205>>, <<43232, 43249>>, <<43263, 43263>>,
    <<43302, 43309>>, <<43335, 43345>>, <<43392, 43394>>, <<43443, 43443>>,
    <<43446, 43449>>, <<43452, 43453>>, <<43471, 43471>>, <<43493, 43494>>,
    <<43561, 43566>>, <<43569, 43570>>, <<43573, 43574>>, <<43587, 43587>>,
    <<43596, 43596>>, <<43632, 43632>>, <<43644, 43644>>, <<43696, 43696>>,
    <<43698, 43700>>, <<43703, 43704>>, <<43710, 43711>>, <<43713, 43713>>,
    <<43741, 43741>>, <<43756, 43757>>, <<43763, 43764>>, <<43766, 43766>>,
    <<43867, 43871>>, <<43881, 43883>>, <<44005, 44005>>, <<44008, 44008>>,
    <<44013, 44013>>, <<64286, 64286>>, <<64434, 64450>>, <<65024, 65039>>,
    <<65043, 65043>>, <<65056, 65071>>, <<65106, 65106>>, <<65109, 65109>>,
    <<65279, 65279>>, <<65287, 65287>>, <<65294, 65294>>, <<65306, 65306>>,
    <<65342, 65342>>, <<65344, 65344>>, <<65392, 65392>>, <<65438, 65439>>,
    <<65507, 65507>>, <<65529, 65531>>, <<66045, 66045>>, <<66272, 66272>>,
    <<66422, 66426>>, <<67456, 67461>>, <<67463, 67504>>, <<67506, 67514>>,
    <<68097, 68099>>, <<68101, 68102>>, <<68108, 68111>>, <<68152, 68154>>,
    <<68159, 68159>>, <<68325, 68326>>, <<68900, 68903>>, <<69291, 69292>>,
    <<69446, 69456>>, <<69506, 69509>>, <<69633, 69633>>, <<69688, 69702>>,
    <<69744, 69744>>, <<69747, 69748>>, <<69759, 69761>>, <<69811, 69814>>,
    <<69817, 69818>>, <<69821, 69821>>, <<69826, 69826>>, <<69837, 69837>>,
    <<69888, 69890>>, <<69927, 69931>>, <<69933, 69940>>, <<70003, 70003>>,
    <<70016, 70017>>, <<70070, 70078>>, <<70089, 70092>>, <<70095, 70095>>,
    <<70191, 70193>>, <<70196, 70196>>, <<70198, 70199>>, <<70206, 70206>>,
    <<70367, 70367>>, <<70371, 70378>>, <<70400, 70401>>, <<70459, 70460>>,
    <<70464, 70464>>, <<70502, 70508>>, <<70512, 70516>>, <<70712, 70719>>,
    <<70722, 70724>>, <<70726, 70726>>, <<70750, 70750>>, <<70835, 70840>>,
    <<70842, 70842>>, <<70847, 70848>>, <<70850, 70851>>, <<71090, 71093>>,
    <<71100, 71101>>, <<71103, 71104>>, <<71132, 71133>>, <<71219, 71226>>,
    <<71229, 71229>>, <<71231, 71232>>, <<71339, 71339>>, <<71341, 71341>>,
    <<71344, 71349>>, <<71351, 71351>>, <<71453, 71455>>, <<71458, 71461>>,
    <<71463, 71467>>, <<71727, 71735>>, <<71737, 71738>>, <<71995, 71996>>,
    <<71998, 71998>>, <<72003, 72003>>, <<72148, 72151>>, <<72154, 72155>>,
    <<72160, 72160>>, <<72193, 72202>>, <<72243, 72248>>, <<72251, 72254>>,
    <<72263, 72263>>, <<72273, 72278>>, <<72281, 72283>>, <<72330, 72342>>,
    <<72344, 72345>>, <<72752, 72758>>, <<72760, 72765>>, <<72767, 72767>>,
    <<72850, 72871>>, <<72874, 72880>>, <<72882, 72883>>, <<72885, 72886>>,
    <<73009, 73014>>, <<73018, 73018>>, <<73020, 73021>>, <<73023, 73029>>,
    <<73031, 73031>>, <<73104, 73105>>, <<73109, 73109>>, <<73111, 73111>>,
    <<73459, 73460>>, <<78896, 78904>>, <<92912, 92916>>, <<92976, 92982>>,
    <<92992, 92995>>, <<94031, 94031>>, <<94095, 94111>>, <<94176, 94177>>,
    <<94179, 94180>>, <<110576, 110579>>, <<110581, 110587>>, <<110589,
    110590>>, <<113821, 113822>>, <<113824, 113827>>, <<118528, 118573>>,
    <<118576, 118598>>, <<119143, 119145>>, <<119155, 119170>>, <<119173,
    119179>>, <<119210, 119213>>, <<119362, 119364>>, <<121344, 121398>>,
    <<121403, 121452>>, <<121461, 121461>>, <<121476, 121476>>, <<121499,
    121503>>, <<121505, 121519>>, <<122880, 122886>>, <<122888, 122904>>,
    <<122907, 122913>>, <<122915, 122916>>, <<122918, 122922>>, <<123184,
    123197>>, <<123566, 123566>>, <<123628, 123631>>, <<125136, 125142>>,
    <<125252, 125259>>, <<127995, 127999>>, <<917505, 917505>>, <<917536,
    917631>>, <<917760, 917999>>
    }

InRanges(c, ranges) == \E r \in ranges : r[1] <= c /\ c <= r[2]
IsCased(c) == InRanges(c, CasedRanges)
IsCaseIgnorable(c) == InRanges(c, CaseIgnorableRanges)

\* str.lower() of one character outside any context: the mapping of the
\* database; U+0130 is the one code point whose lower case is two characters
LowerChar(c) ==
    IF c \in 65..90 THEN <<c + 32>>
    ELSE IF c < 192 THEN <<c>>
    ELSE IF c = 304 THEN <<105, 775>>
    ELSE LET hits == {r \in LowerRanges :
                        r[1] <= c /\ c <= r[2] /\ (c - r[1]) % r[3] = 0}
         IN  IF hits = {} THEN <<c>> ELSE <<c + (CHOOSE r \in hits : TRUE)[4]>>

\* ss[lo] \o ... \o ss[hi], halving the range so that the nesting stays shallow
RECURSIVE Flatten(_, _, _)
Flatten(ss, lo, hi) ==
    IF lo > hi THEN <<>>
    ELSE IF lo = hi THEN ss[lo]
    ELSE Flatten(ss, lo, (lo + hi) \div 2) \o Flatten(ss, (lo + hi) \div 2 + 1, hi)

\* the members of S among 1..n, in ascending order
Ascending(S, n) == Flatten([i \in 1..n |-> IF i \in S THEN <<i>> ELSE <<>>], 1, n)

\* the lower case of the capital sigma at s[i]: the final form when a cased
\* character precedes it and none follows it, case-ignorable characters skipped
final_sigma(s, i) ==
    LET before == \E j \in 1..(i - 1) :
                     /\ ~IsCaseIgnorable(s[j]) /\ IsCased(s[j])
                     /\ \A k \in (j + 1)..(i - 1) : IsCaseIgnorable(s[k])
        after == \E j \in (i + 1)..Len(s) :
                     /\ ~IsCaseIgnorable(s[j]) /\ IsCased(s[j])
                     /\ \A k \in (i + 1)..(j - 1) : IsCaseIgnorable(s[k])
    IN  IF before /\ ~after THEN 962 ELSE 963

\* str.lower()
str_lower(s) ==
    Flatten([i \in 1..Len(s) |-> IF s[i] = 931 THEN <<final_sigma(s, i)>>
                                 ELSE LowerChar(s[i])], 1, Len(s))

\* str.strip(): what lies between the first and the last non-whitespace character
str_strip(s) ==
    LET keep == Ascending({i \in 1..Len(s) : ~IsSpace(s[i])}, Len(s))
    IN  IF keep = <<>> THEN <<>> ELSE SubSeq(s, keep[1], keep[Len(keep)])

\* str.endswith(suffix)
str_endswith(s, suffix) ==
    /\ Len(suffix) <= Len(s)
    /\ SubSeq(s, Len(s) - Len(suffix) + 1, Len(s)) = suffix

\* sub in s
str_contains(s, sub) ==
    \E i \in 1..(Len(s) - Len(sub) + 1) : SubSeq(s, i, i + Len(sub) - 1) = sub

\* sep.join(parts)
str_join(sep, parts) ==
    Flatten([i \in 1..Len(parts) |-> IF i = 1 THEN parts[i] ELSE sep \o parts[i]],
            1, Len(parts))

\* (a variant that takes one element more)
slice_to_inclusive(seq, n) ==
    IF n >= 0 THEN SubSeq(seq, 1, IF n + 1 < Len(seq) THEN n + 1 ELSE Len(seq))
    ELSE SubSeq(seq, 1, IF Len(seq) + n + 1 > 0 THEN Len(seq) + n + 1 ELSE 0)

\* seq[:n], negative n counting from the end
slice_to(seq, n) ==
    IF n >= 0 THEN SubSeq(seq, 1, IF n < Len(seq) THEN n ELSE Len(seq))
    ELSE SubSeq(seq, 1, IF Len(seq) + n > 0 THEN Len(seq) + n ELSE 0)

RECURSIVE DigitsOf(_)
DigitsOf(n) == IF n < 10 THEN <<48 + n>> ELSE DigitsOf(n \div 10) \o <<48 + (n % 10)>>

\* str(n) / f"{n}" of an int
str_int(n) == IF n < 0 THEN <<45>> \o DigitsOf(0 - n) ELSE DigitsOf(n)

IsCont(b) == b \in 128..191
Second3(b0, b1) ==
    IF b0 = 224 THEN b1 \in 160..191
    ELSE IF b0 = 237 THEN b1 \in 128..159
    ELSE IsCont(b1)
Second4(b0, b1) ==
    IF b0 = 240 THEN b1 \in 144..191
    ELSE IF b0 = 244 THEN b1 \in 128..143
    ELSE IsCont(b1)

\* The character that starts at byte i, as a one-element sequence, or <<>> when
\* no well-formed UTF-8 sequence starts there.  A byte that is part of no
\* well-formed sequence is dropped (errors="ignore"); a continuation byte never
\* starts a sequence, so what starts at i does not depend on the bytes before it.
DecodeAt(b, i) ==
    IF b[i] < 128 THEN <<b[i]>>
    ELSE IF /\ b[i] \in 194..223
            /\ i + 1 <= Len(b)
            /\ IsCont(b[i + 1])
         THEN <<(b[i] - 192) * 64 + (b[i + 1] - 128)>>
    ELSE IF /\ b[i] \in 224..239
            /\ i + 2 <= Len(b)
            /\ Second3(b[i], b[i + 1])
            /\ IsCont(b[i + 2])
         THEN <<(b[i] - 224) * 4096 + (b[i + 1] - 128) * 64 + (b[i + 2] - 128)>>
    ELSE IF /\ b[i] \in 240..244
            /\ i + 3 <= Len(b)
            /\ Second4(b[i], b[i + 1])
            /\ IsCont(b[i + 2])
            /\ IsCont(b[i + 3])
         THEN <<(b[i] - 240) * 262144 + (b[i + 1] - 128) * 4096
                 + (b[i + 2] - 128) * 64 + (b[i + 3] - 128)>>
    ELSE <<>>

\* bytes.decode("utf-8", errors="ignore")
decode_utf8_ignore(b) == Flatten([i \in 1..Len(b) |-> DecodeAt(b, i)], 1, Len(b))

(***************************************************************************)
(* generate_summary (lines 66-69)                                          *)
(***************************************************************************)
SentenceEnd == {46, 33, 63}      \* the characters of [.!?]

\* where the pattern matches: a space that directly follows one of [.!?]
separators(s) ==
    Ascending({i \in 2..Len(s) : s[i] = 32 /\ s[i - 1] \in SentenceEnd}, Len(s))

\* last index of the run of spaces that starts at i (" +" takes the whole run)
SpaceRunEnd(s, i) == SetMin({j \in i..Len(s) : j = Len(s) \/ s[j + 1] # 32})

\* re.split(r'(?<=[.!?]) +', text): the text between the matches
split_sentences(text) ==
    LET seps == separators(text)
    IN  [k \in 1..(Len(seps) + 1) |->
            SubSeq(text,
                   IF k = 1 THEN 1 ELSE SpaceRunEnd(text, seps[k - 1]) + 1,
                   IF k <= Len(seps) THEN seps[k] - 1 ELSE Len(text))]

generate_summary(text, max_sentences) ==
    str_join(<<32>>, slice_to(split_sentences(text), max_sentences))

(***************************************************************************)
(* extract_keywords (lines 71-86)                                          *)
(***************************************************************************)
IsAlnumOrSpace(c) == c \in 97..122 \/ c \in 65..90 \/ c \in 48..57 \/ c = 32

\* re.sub(r"[^a-zA-Z0-9 ]", " ", s)
sub_non_alnum(s) == [i \in 1..Len(s) |-> IF IsAlnumOrSpace(s[i]) THEN s[i] ELSE 32]

\* last index of the word that starts at i
WordEnd(s, i) == SetMin({j \in i..Len(s) : j = Len(s) \/ IsSpace(s[j + 1])})

\* str.split(): the maximal runs of non-whitespace, in order
str_split(s) ==
    LET starts == Ascending({i \in 1..Len(s) :
                                ~IsSpace(s[i]) /\ (i = 1 \/ IsSpace(s[i - 1]))}, Len(s))
    IN  [k \in 1..Len(starts) |-> SubSeq(s, starts[k], WordEnd(s, starts[k]))]

stopwords == {
    <<116, 104, 101>>,          \* the
    <<105, 115>>,               \* is
    <<97, 110, 100>>,           \* and
    <<105, 110>>,               \* in
    <<111, 102>>,               \* of
    <<116, 111>>,               \* to
    <<97>>,                     \* a
    <<111, 110>>,               \* on
    <<102, 111, 114>>,          \* for
    <<97, 115>>,                \* as
    <<98, 121>>,                \* by
    <<119, 105, 116, 104>>,     \* with
    <<97, 110>>,                \* an
    <<105, 116>>,               \* it
    <<116, 104, 105, 115>>,     \* this
    <<116, 104, 97, 116>>,      \* that
    <<97, 114, 101>>,           \* are
    <<98, 101>>,                \* be
    <<111, 114>>,               \* or
    <<102, 114, 111, 109>>,     \* from
    <<97, 116>>,                \* at
    <<119, 97, 115>>,           \* was
    <<119, 101, 114, 101>>,     \* were
    <<121, 111, 117>>,          \* you
    <<121, 111, 117, 114>> }    \* your

\* (a variant of the test without the stopword set)
is_keyword_by_length(w) == Len(w) > 3

\* the test of line 82
is_keyword(w) == w \notin stopwords /\ Len(w) > 3

\* Lines 80-83.  The dict freq is a sequence of [key, count] in insertion order:
\* a key is inserted when its first occurrence is met, and counted at each one.
count_words(words) ==
    LET firsts == Ascending({i \in 1..Len(words) :
                                /\ is_keyword(words[i])
                                /\ \A j \in 1..(i - 1) : words[j] # words[i]},
                            Len(words))
    IN  [k \in 1..Len(firsts) |->
            [key |-> words[firsts[k]],
             count |-> Cardinality({j \in 1..Len(words) : words[j] = words[firsts[k]]})]]

\* (a variant that sorts ascending and reverses: entries of equal count change places)
sorted_position_reversed(freq, i) ==
    1 + Cardinality({j \in 1..Len(freq) : freq[j].count > freq[i].count})
      + Cardinality({j \in (i + 1)..Len(freq) : freq[j].count = freq[i].count})

\* Where sorted(..., reverse=True) puts entry i: after the entries with a larger
\* count and, the sort being stable, after the earlier entries with the same count.
sorted_position(freq, i) ==
    1 + Cardinality({j \in 1..Len(freq) : freq[j].count > freq[i].count})
      + Cardinality({j \in 1..(i - 1) : freq[j].count = freq[i].count})

\* sorted(freq, key=freq.get, reverse=True): the keys, by descending count
sorted_by_count(freq) ==
    [p \in 1..Len(freq) |->
        freq[CHOOSE i \in 1..Len(freq) : sorted_position(freq, i) = p].key]

extract_keywords(text, max_keywords) ==
    LET words == str_split(sub_non_alnum(str_lower(text)))
    IN  slice_to(sorted_by_count(count_words(words)), max_keywords)

(***************************************************************************)
(* has_enough_context (lines 88-90)                                        *)
(***************************************************************************)
\* (a variant with > in place of >=)
has_enough_context_strict(text, min_length) == Len(str_strip(text)) > min_length

has_enough_context(text, min_length) == Len(str_strip(text)) >= min_length

(***************************************************************************)
(* Program constants.                                                      *)
(***************************************************************************)
MIN_LENGTH == 300            \* default min_length of has_enough_context
MAX_SENTENCES == 5           \* default max_sentences of generate_summary
MAX_KEYWORDS == 8            \* default max_keywords of extract_keywords
SLIDER_MIN == 1              \* st.slider("Questions per topic", 1, 15, 5)
SLIDER_MAX == 15
SLIDER_DEFAULT == 5

(***************************************************************************)
(* String literals of the source.                                          *)
(***************************************************************************)
\* '\nUse ONLY the content below to generate '
DocPromptHead ==
    <<10, 85, 115, 101, 32, 79, 78, 76, 89, 32, 116, 104, 101, 32, 99, 111, 110,
    116, 101, 110, 116, 32, 98, 101, 108, 111, 119, 32, 116, 111, 32, 103, 101,
    110, 101, 114, 97, 116, 101, 32>>

\* ' MCQs:\n\n'
DocPromptMid ==
    <<32, 77, 67, 81, 115, 58, 10, 10>>

\* '\n\nDifficulty: '
DocPromptDifficulty ==
    <<10, 10, 68, 105, 102, 102, 105, 99, 117, 108, 116, 121, 58, 32>>

\* '\n\nRequirements:\n- Each question must be based ONLY on the provided text\n- Use 4 options (A-D)\n- Provide the correct answer at the end\n'
DocPromptTail ==
    <<10, 10, 82, 101, 113, 117, 105, 114, 101, 109, 101, 110, 116, 115, 58, 10,
    45, 32, 69, 97, 99, 104, 32, 113, 117, 101, 115, 116, 105, 111, 110, 32,
    109, 117, 115, 116, 32, 98, 101, 32, 98, 97, 115, 101, 100, 32, 79, 78, 76,
    89, 32, 111, 110, 32, 116, 104, 101, 32, 112, 114, 111, 118, 105, 100, 101,
    100, 32, 116, 101, 120, 116, 10, 45, 32, 85, 115, 101, 32, 52, 32, 111, 112,
    116, 105, 111, 110, 115, 32, 40, 65, 45, 68, 41, 10, 45, 32, 80, 114, 111,
    118, 105, 100, 101, 32, 116, 104, 101, 32, 99, 111, 114, 114, 101, 99, 116,
    32, 97, 110, 115, 119, 101, 114, 32, 97, 116, 32, 116, 104, 101, 32, 101,
    110, 100, 10>>

\* '\nGenerate '
KeywordPromptHead ==
    <<10, 71, 101, 110, 101, 114, 97, 116, 101, 32>>

\* ' multiple-choice questions on:\n'
KeywordPromptMid ==
    <<32, 109, 117, 108, 116, 105, 112, 108, 101, 45, 99, 104, 111, 105, 99,
    101, 32, 113, 117, 101, 115, 116, 105, 111, 110, 115, 32, 111, 110, 58, 10>>

\* '\n\nDifficulty: '
KeywordPromptDifficulty ==
    <<10, 10, 68, 105, 102, 102, 105, 99, 117, 108, 116, 121, 58, 32>>

\* '\n\nRequirements:\n- 4 options per question (A–D)\n- Mention correct answer at the end\n'
KeywordPromptTail ==
    <<10, 10, 82, 101, 113, 117, 105, 114, 101, 109, 101, 110, 116, 115, 58, 10,
    45, 32, 52, 32, 111, 112, 116, 105, 111, 110, 115, 32, 112, 101, 114, 32,
    113, 117, 101, 115, 116, 105, 111, 110, 32, 40, 65, 8211, 68, 41, 10, 45,
    32, 77, 101, 110, 116, 105, 111, 110, 32, 99, 111, 114, 114, 101, 99, 116,
    32, 97, 110, 115, 119, 101, 114, 32, 97, 116, 32, 116, 104, 101, 32, 101,
    110, 100, 10>>

\* 'Error generating questions: '
ErrorGenerating ==
    <<69, 114, 114, 111, 114, 32, 103, 101, 110, 101, 114, 97, 116, 105, 110,
    103, 32, 113, 117, 101, 115, 116, 105, 111, 110, 115, 58, 32>>

\* 'Error reading file: '
ErrorReading ==
    <<69, 114, 114, 111, 114, 32, 114, 101, 97, 100, 105, 110, 103, 32, 102,
    105, 108, 101, 58, 32>>

\* '### Topics: '
TopicsHeading ==
    <<35, 35, 35, 32, 84, 111, 112, 105, 99, 115, 58, 32>>

\* 'Keywords found: '
KeywordsFound ==
    <<75, 101, 121, 119, 111, 114, 100, 115, 32, 102, 111, 117, 110, 100, 58,
    32>>

\* '.pdf'
DotPdf ==
    <<46, 112, 100, 102>>

\* ', '
CommaSpace ==
    <<44, 32>>

\* '\n'
Newline ==
    <<10>>

\* 'easy'
Easy ==
    <<101, 97, 115, 121>>

\* 'medium'
Medium ==
    <<109, 101, 100, 105, 117, 109>>

\* 'hard'
Hard ==
    <<104, 97, 114, 100>>

Difficulties == {Easy, Medium, Hard}     \* the options of st.selectbox, line 122

\* (a variant that embeds the summary of the text in place of the text)
doc_prompt_of_summary(n, text, d) ==
    DocPromptHead \o str_int(n) \o DocPromptMid \o generate_summary(text, MAX_SENTENCES)
        \o DocPromptDifficulty \o d \o DocPromptTail

\* the f-string of lines 134-145
doc_prompt(n, text, d) ==
    DocPromptHead \o str_int(n) \o DocPromptMid \o text
        \o DocPromptDifficulty \o d \o DocPromptTail

\* the f-string of lines 161-170
keyword_prompt(n, topic, d) ==
    KeywordPromptHead \o str_int(n) \o KeywordPromptMid \o topic
        \o KeywordPromptDifficulty \o d \o KeywordPromptTail

(***************************************************************************)
(* Values a call produces: a returned value, or an exception on its way up *)
(* to the nearest handler.                                                 *)
(***************************************************************************)
Returned(v) == [raised |-> FALSE, value |-> v, msg |-> <<>>]
Raised(m) == [raised |-> TRUE, value |-> <<>>, msg |-> m]

(***************************************************************************)
(* Inputs.                                                                 *)
(***************************************************************************)
PieceCell == <<99, 101, 108, 108, 32>>      \* 'cell '
PieceData == <<100, 97, 116, 97, 32>>       \* 'data '
\* 'Cell data. '
PieceCellStop ==
    <<67, 101, 108, 108, 32, 100, 97, 116, 97, 46, 32>>
PieceThis == <<116, 104, 105, 115, 32>>     \* 'this '
PieceThe == <<116, 104, 101, 32>>           \* 'the '
PieceDataBang == <<100, 97, 116, 97, 33, 32, 32>> \* 'data!  '
PieceYear == <<50, 48, 50, 52, 63>>         \* '2024?'
PieceAccent == <<233, 10>>                  \* 'é\n'
PieceDotted == <<99, 97, 116, 46, 121, 32>> \* 'cat.y '

\* 'cell data '
BlockUnit ==
    <<99, 101, 108, 108, 32, 100, 97, 116, 97, 32>>
BlockEnd == <<109, 105, 116, 111, 115, 105, 115, 46>> \* 'mitosis.'
PartAb == <<97, 98, 32>>                    \* 'ab '
PartC == <<99>>                             \* 'c'
PartSpace == <<32>>                         \* ' '
\* 'Cell data. '
PartSentence ==
    <<67, 101, 108, 108, 32, 100, 97, 116, 97, 46, 32>>
\* '  Quiz this! '
PartQuiz ==
    <<32, 32, 81, 117, 105, 122, 32, 116, 104, 105, 115, 33, 32>>
NameTxt == <<110, 111, 116, 101, 115, 46, 116, 120, 116>> \* 'notes.txt'
NamePdf == <<110, 111, 116, 101, 115, 46, 112, 100, 102>> \* 'notes.pdf'
NamePdfUpper == <<78, 79, 84, 69, 83, 46, 80, 68, 70>> \* 'NOTES.PDF'
PdfBytes == <<37, 80, 68, 70, 45, 49, 46, 52>> \* '%PDF-1.4'
\* 'No /Root object'
MsgNotPdf ==
    <<78, 111, 32, 47, 82, 111, 111, 116, 32, 111, 98, 106, 101, 99, 116>>
\* 'Cannot read an empty file'
MsgEmptyFile ==
    <<67, 97, 110, 110, 111, 116, 32, 114, 101, 97, 100, 32, 97, 110, 32, 101,
    109, 112, 116, 121, 32, 102, 105, 108, 101>>
\* 'I/O operation on closed file.'
MsgClosed ==
    <<73, 47, 79, 32, 111, 112, 101, 114, 97, 116, 105, 111, 110, 32, 111, 110,
    32, 99, 108, 111, 115, 101, 100, 32, 102, 105, 108, 101, 46>>
\* '503 timeout'
MsgTimeout ==
    <<53, 48, 51, 32, 116, 105, 109, 101, 111, 117, 116>>
\* 'response blocked'
MsgBlocked ==
    <<114, 101, 115, 112, 111, 110, 115, 101, 32, 98, 108, 111, 99, 107, 101,
    100>>
\* 'Q1. What is a cell?\nA) x B) y C) z D) w\nAnswer: A'
ResponseQuiz ==
    <<81, 49, 46, 32, 87, 104, 97, 116, 32, 105, 115, 32, 97, 32, 99, 101, 108,
    108, 63, 10, 65, 41, 32, 120, 32, 66, 41, 32, 121, 32, 67, 41, 32, 122, 32,
    68, 41, 32, 119, 10, 65, 110, 115, 119, 101, 114, 58, 32, 65>>
\* 'pasted notes'
PastedNotes ==
    <<112, 97, 115, 116, 101, 100, 32, 110, 111, 116, 101, 115>>
BytesAccent == <<195, 169>>                 \* the UTF-8 encoding of U+00E9
BytesLoneLead == <<195>>                    \* a lead byte with nothing after it
BytesInvalid == <<255>>                     \* never valid in UTF-8

RECURSIVE Rep(_, _)
Rep(s, n) == IF n = 0 THEN <<>> ELSE s \o Rep(s, n - 1)

\* 298 characters of real words, no whitespace at either end
Block298 == Rep(BlockUnit, 29) \o BlockEnd

\* all concatenations of at most n members of parts
RECURSIVE Concats(_, _)
Concats(parts, n) ==
    IF n = 0 THEN {<<>>}
    ELSE LET shorter == Concats(parts, n - 1)
         IN  shorter \cup {s \o p : s \in shorter, p \in parts}

Pieces == {PieceCell, PieceData, PieceCellStop, PieceThis, PieceThe,
           PieceDataBang, PieceYear, PieceAccent, PieceDotted}
Texts == Concats(Pieces, MaxPieces)

PasteParts == {Block298, PartAb, PartC, PartSpace, PartSentence, PartQuiz}
PasteTexts == Concats(PasteParts, MaxParts)

UploadParts == {Block298, PartAb, PartSpace, BytesAccent, BytesLoneLead, BytesInvalid}
UploadBytes == Concats(UploadParts, MaxParts)

\* what page.extract_text() gives for one page
Page(t) == [none |-> FALSE, text |-> t]
BlankPage == [none |-> TRUE, text |-> <<>>]
PageLists == {<<>>,
              <<BlankPage>>,
              <<Page(PartSentence)>>,
              <<BlankPage, Page(PartQuiz)>>,
              <<Page(Block298), Page(PartAb)>>}

\* what a PDF library makes of the bytes of a document
ParseOutcomes == {Raised(MsgNotPdf)} \cup {Returned(pl) : pl \in PageLists}
NoParse == Raised(MsgNotPdf)

NoFile ==
    [present |-> FALSE, name |-> <<>>, data |-> <<>>, pos |-> 0, closed |-> FALSE,
     primary |-> NoParse, secondary |-> NoParse]

TextFiles ==
    {[present |-> TRUE, name |-> NameTxt, data |-> b, pos |-> 0, closed |-> FALSE,
      primary |-> NoParse, secondary |-> NoParse] : b \in UploadBytes}

PdfFiles ==
    {[present |-> TRUE, name |-> n, data |-> PdfBytes, pos |-> 0, closed |-> FALSE,
      primary |-> p, secondary |-> s] :
        n \in {NamePdf, NamePdfUpper}, p \in ParseOutcomes, s \in ParseOutcomes}

\* what st.file_uploader can return for an upload: a fresh, open file object
Uploads == TextFiles \cup PdfFiles

\* the arguments extract_text_from_file is tried on: also file objects already closed
ExtractInputs == Uploads \cup {[f EXCEPT !.closed = TRUE] : f \in Uploads}

\* (uploaded_file, text_input) as lines 106-107 can return them
WidgetInputs ==
    {<<f, t>> : f \in Uploads, t \in {<<>>, PastedNotes}}
        \cup {<<NoFile, t>> : t \in PasteTexts}

\* What the service does with a request: generate_content returns a response
\* whose text can be read ("ok"), generate_content raises ("raise_call"), or
\* reading response.text raises ("raise_text").
ServiceOutcomes ==
    {[kind |-> "ok", text |-> t] : t \in {ResponseQuiz, ErrorGenerating \o MsgTimeout}}
        \cup {[kind |-> "raise_call", text |-> MsgTimeout],
              [kind |-> "raise_text", text |-> MsgBlocked]}

\* the slider positions tried: both ends, the default and a two-digit value between
QuestionCounts == {SLIDER_MIN, SLIDER_DEFAULT, 10, SLIDER_MAX}
NoService == [kind |-> "none", text |-> <<>>]

(***************************************************************************)
(* extract_text_from_file (lines 45-64)                                    *)
(***************************************************************************)
\* uploaded_file.read(): the bytes from the stream position to the end
file_read(f) ==
    IF f.closed THEN Raised(MsgClosed)
    ELSE Returned(SubSeq(f.data, f.pos + 1, Len(f.data)))

\* the file object once read() has returned: the position is at the end
after_read(f) == IF f.closed THEN f ELSE [f EXCEPT !.pos = Len(f.data)]

\* uploaded_file.getvalue(): the whole buffer, whatever the position
file_getvalue(f) == IF f.closed THEN Raised(MsgClosed) ELSE Returned(f.data)

\* pdfplumber.open(io.BytesIO(b)) and the page extraction of line 51
pdfplumber_pages(f, b) ==
    IF b = <<>> THEN Raised(MsgNotPdf)
    ELSE IF b = f.data THEN f.primary
    ELSE Raised(MsgNotPdf)

\* PyPDF2.PdfReader(io.BytesIO(b)) and the page extraction of line 55
pypdf2_pages(f, b) ==
    IF b = <<>> THEN Raised(MsgEmptyFile)
    ELSE IF b = f.data THEN f.secondary
    ELSE Raised(MsgNotPdf)

\* p.extract_text() or ""
page_text(p) == IF p.none THEN <<>> ELSE p.text

\* "\n".join(pages)
join_pages(pages) == str_join(Newline, [i \in 1..Len(pages) |-> page_text(pages[i])])

\* lines 50-52
primary_strategy(f) ==
    LET r == file_read(f)
        p == IF r.raised THEN r ELSE pdfplumber_pages(f, r.value)
    IN  IF p.raised THEN p ELSE Returned(join_pages(p.value))

\* lines 54-56, on the file object as the primary strategy left it
secondary_strategy(f) ==
    LET r == file_read(f)
        p == IF r.raised THEN r ELSE pypdf2_pages(f, r.value)
    IN  IF p.raised THEN p ELSE Returned(join_pages(p.value))

\* line 48
is_pdf(f) == str_endswith(str_lower(f.name), DotPdf)

\* lines 48-61: the body of the outer try
extract_body(f) ==
    IF is_pdf(f)
    THEN IF primary_strategy(f).raised
         THEN secondary_strategy(after_read(f))      \* the handler of line 53
         ELSE primary_strategy(f)
    ELSE LET raw == file_getvalue(f)
         IN  IF raw.raised THEN raw ELSE Returned(decode_utf8_ignore(raw.value))

\* (a variant without the handler of line 62: the exception goes on to the caller)
handle_read_error_absent(r) == [raised |-> r.raised, value |-> r.value, errors |-> <<>>]

\* lines 62-64: the handler of the outer try, applied to what the body did
handle_read_error(r) ==
    IF r.raised
    THEN [raised |-> FALSE, value |-> <<>>, errors |-> <<ErrorReading \o r.msg>>]
    ELSE [raised |-> FALSE, value |-> r.value, errors |-> <<>>]

extract_text_from_file(f) == handle_read_error(extract_body(f))

\* the file object after the call
file_after_extract(f) == IF is_pdf(f) THEN after_read(f) ELSE f

(***************************************************************************)
(* generate_questions (lines 95-100); svc is what the external service     *)
(* does with the request.                                                  *)
(***************************************************************************)
\* (a variant without the try of line 96: a failure of the service goes on up)
generate_questions_unguarded(p, n, d, svc) ==
    IF svc.kind = "ok"
    THEN [raised |-> FALSE, value |-> svc.text, sent |-> <<p>>]
    ELSE [raised |-> TRUE, value |-> <<>>, sent |-> <<p>>]

\* (a variant that asks the service once more after a failure)
generate_questions_retrying(p, n, d, svc) ==
    IF svc.kind = "ok"
    THEN [raised |-> FALSE, value |-> svc.text, sent |-> <<p>>]
    ELSE [raised |-> FALSE, value |-> ErrorGenerating \o svc.text, sent |-> <<p, p>>]

generate_questions(p, n, d, svc) ==
    IF svc.kind = "ok"
    THEN [raised |-> FALSE, value |-> svc.text, sent |-> <<p>>]
    ELSE [raised |-> FALSE, value |-> ErrorGenerating \o svc.text, sent |-> <<p>>]

(***************************************************************************)
(* The script run.                                                         *)
(***************************************************************************)
\* (a variant that turns to the pasted text when the upload yields nothing)
select_text_falling_back(f, t) ==
    IF f.present /\ extract_text_from_file(f).value # <<>>
    THEN LET r == extract_text_from_file(f)
         IN  [raised |-> r.raised, value |-> r.value, errors |-> r.errors,
              extracted |-> <<f>>]
    ELSE IF str_strip(t) # <<>>
    THEN [raised |-> FALSE, value |-> str_strip(t), errors |-> <<>>,
          extracted |-> IF f.present THEN <<f>> ELSE <<>>]
    ELSE [raised |-> FALSE, value |-> <<>>, errors |-> <<>>,
          extracted |-> IF f.present THEN <<f>> ELSE <<>>]

\* Lines 109-113: the text blob chosen from the two widgets.  A file object is
\* truthy whatever it holds; extracted lists the files handed to the extractor.
select_text(f, t) ==
    IF f.present
    THEN LET r == extract_text_from_file(f)
         IN  [raised |-> r.raised, value |-> r.value, errors |-> r.errors,
              extracted |-> <<f>>]
    ELSE IF str_strip(t) # <<>>
    THEN [raised |-> FALSE, value |-> str_strip(t), errors |-> <<>>, extracted |-> <<>>]
    ELSE [raised |-> FALSE, value |-> <<>>, errors |-> <<>>, extracted |-> <<>>]

Show(w, body) == [w |-> w, body |-> body]
Call(fn, a) == [fn |-> fn, arg |-> a]

\* 'gemini'
Gemini ==
    <<103, 101, 109, 105, 110, 105>>
\* 'Using Gemini model: '
UsingModel ==
    <<85, 115, 105, 110, 103, 32, 71, 101, 109, 105, 110, 105, 32, 109, 111,
    100, 101, 108, 58, 32>>
\* 'sk-test'
ApiKey ==
    <<115, 107, 45, 116, 101, 115, 116>>
\* 'models/embedding-001'
NameEmbedding ==
    <<109, 111, 100, 101, 108, 115, 47, 101, 109, 98, 101, 100, 100, 105, 110,
    103, 45, 48, 48, 49>>
\* 'models/Gemini-1.5-Flash'
NameFlash ==
    <<109, 111, 100, 101, 108, 115, 47, 71, 101, 109, 105, 110, 105, 45, 49, 46,
    53, 45, 70, 108, 97, 115, 104>>
\* '403 API key not valid'
MsgKey ==
    <<52, 48, 51, 32, 65, 80, 73, 32, 107, 101, 121, 32, 110, 111, 116, 32, 118,
    97, 108, 105, 100>>

\* the environment of a run: the value of GEMINI_API_KEY (empty when unset)
\* and what genai.list_models() gives
ConfigInputs ==
    {[key |-> <<>>, listing |-> Returned(<<>>)],
     [key |-> ApiKey, listing |-> Raised(MsgKey)],
     [key |-> ApiKey, listing |-> Returned(<<>>)],
     [key |-> ApiKey, listing |-> Returned(<<NameEmbedding>>)],
     [key |-> ApiKey, listing |-> Returned(<<NameEmbedding, NameFlash>>)]}

\* line 26: the names that contain 'gemini', whatever the case
text_models(names) == SelectSeq(names, LAMBDA n : str_contains(str_lower(n), Gemini))

\* lines 17-40: the outcome of the configuration and what it puts on the page;
\* a failure of list_models is caught nowhere and ends the run
configure(env) ==
    IF env.key = <<>>
    THEN [status |-> "no_key", shown |-> <<Show("error", <<>>)>>]
    ELSE IF env.listing.raised
    THEN [status |-> "failed", shown |-> <<>>]
    ELSE IF text_models(env.listing.value) = <<>>
    THEN [status |-> "no_models", shown |-> <<Show("error", <<>>)>>]
    ELSE [status |-> "ok",
          shown |-> <<Show("info", UsingModel \o text_models(env.listing.value)[1]),
                      Show("title", <<>>)>>]

Init ==
    /\ pc = "start"
    /\ config = "unset"
    /\ uploaded_file = NoFile
    /\ text_input = <<>>
    /\ text_data = <<>>
    /\ summary = <<>>
    /\ num_questions = 0
    /\ difficulty = <<>>
    /\ pressed = FALSE
    /\ path = "none"
    /\ keywords = <<>>
    /\ prompt = <<>>
    /\ quiz = <<>>
    /\ service = NoService
    /\ sent = <<>>
    /\ shown = <<>>
    /\ calls = <<>>
    /\ arg = 0

\* lines 17-40: without a key or a model the run stops here
Configure ==
    /\ pc = "start"
    /\ \E env \in ConfigInputs :
        LET r == configure(env)
        IN  /\ config' = r.status
            /\ pc' = CASE r.status = "ok" -> "widgets"
                       [] r.status = "failed" -> "crashed"
                       [] OTHER -> "stopped"
            /\ shown' = shown \o r.shown
    /\ UNCHANGED <<uploaded_file, text_input, text_data, summary, num_questions,
                   difficulty, pressed, path, keywords, prompt, quiz, service, sent,
                   calls, arg>>

\* lines 105-107
ReadWidgets ==
    /\ pc = "widgets"
    /\ \E in \in WidgetInputs :
        /\ uploaded_file' = in[1]
        /\ text_input' = in[2]
    /\ shown' = Append(shown, Show("subheader", <<>>))
    /\ pc' = "select"
    /\ UNCHANGED <<config, text_data, summary, num_questions, difficulty, pressed,
                   path, keywords, prompt, quiz, service, sent, calls, arg>>

\* lines 109-113
SelectInput ==
    /\ pc = "select"
    /\ LET r == select_text(uploaded_file, text_input)
       IN  /\ text_data' = r.value
           /\ shown' = shown \o [i \in 1..Len(r.errors) |-> Show("error", r.errors[i])]
           /\ calls' = calls \o [i \in 1..Len(r.extracted) |->
                                    Call("extract_text_from_file", r.extracted[i].data)]
           /\ uploaded_file' = IF r.extracted = <<>> THEN uploaded_file
                                ELSE file_after_extract(uploaded_file)
           /\ pc' = IF r.raised THEN "crashed" ELSE "branch"
    /\ UNCHANGED <<config, text_input, summary, num_questions, difficulty, pressed,
                   path, keywords, prompt, quiz, service, sent, arg>>

\* lines 115-118
ShowSummary ==
    /\ pc = "branch"
    /\ text_data # <<>>
    /\ summary' = generate_summary(text_data, MAX_SENTENCES)
    /\ calls' = Append(calls, Call("generate_summary", text_data))
    /\ shown' = shown \o <<Show("subheader", <<>>), Show("write", summary')>>
    /\ pc' = "settings"
    /\ UNCHANGED <<config, uploaded_file, text_input, text_data, num_questions,
                   difficulty, pressed, path, keywords, prompt, quiz, service, sent, arg>>

\* lines 186-187
EmptyInput ==
    /\ pc = "branch"
    /\ text_data = <<>>
    /\ shown' = Append(shown, Show("info_supply_input", <<>>))
    /\ pc' = "done"
    /\ UNCHANGED <<config, uploaded_file, text_input, text_data, summary, num_questions,
                   difficulty, pressed, path, keywords, prompt, quiz, service, sent,
                   calls, arg>>

\* lines 120-122
QuizSettings ==
    /\ pc = "settings"
    /\ num_questions' \in QuestionCounts
    /\ difficulty' \in Difficulties
    /\ shown' = Append(shown, Show("subheader", <<>>))
    /\ pc' = "button"
    /\ UNCHANGED <<config, uploaded_file, text_input, text_data, summary, pressed,
                   path, keywords, prompt, quiz, service, sent, calls, arg>>

\* lines 124-126
Button ==
    /\ pc = "button"
    /\ pressed' \in BOOLEAN
    /\ pc' = IF pressed' THEN "gate" ELSE "done"
    /\ shown' = IF pressed' THEN Append(shown, Show("subheader", <<>>)) ELSE shown
    /\ UNCHANGED <<config, uploaded_file, text_input, text_data, summary, num_questions,
                   difficulty, path, keywords, prompt, quiz, service, sent, calls, arg>>

\* line 131 (and the notice of line 132 or 153)
Gate ==
    /\ pc = "gate"
    /\ calls' = Append(calls, Call("has_enough_context", text_data))
    /\ path' = IF has_enough_context(text_data, MIN_LENGTH) THEN "document" ELSE "keyword"
    /\ shown' = Append(shown, Show(IF path' = "document" THEN "info" ELSE "warning", <<>>))
    /\ pc' = IF path' = "document" THEN "doc_prompt" ELSE "kw_extract"
    /\ UNCHANGED <<config, uploaded_file, text_input, text_data, summary, num_questions,
                   difficulty, pressed, keywords, prompt, quiz, service, sent, arg>>

\* lines 134-145
DocPrompt ==
    /\ pc = "doc_prompt"
    /\ prompt' = doc_prompt(num_questions, text_data, difficulty)
    /\ pc' = "doc_call"
    /\ UNCHANGED <<config, uploaded_file, text_input, text_data, summary, num_questions,
                   difficulty, pressed, path, keywords, quiz, service, sent, shown,
                   calls, arg>>

\* lines 155-157
KeywordExtract ==
    /\ pc = "kw_extract"
    /\ keywords' = extract_keywords(text_data, MAX_KEYWORDS)
    /\ calls' = Append(calls, Call("extract_keywords", text_data))
    /\ shown' = Append(shown, Show("success", KeywordsFound \o str_join(CommaSpace, keywords')))
    /\ pc' = "kw_prompt"
    /\ UNCHANGED <<config, uploaded_file, text_input, text_data, summary, num_questions,
                   difficulty, pressed, path, prompt, quiz, service, sent, arg>>

\* lines 159-170
KeywordPrompt ==
    /\ pc = "kw_prompt"
    /\ prompt' = keyword_prompt(num_questions, str_join(CommaSpace, keywords), difficulty)
    /\ pc' = "kw_call"
    /\ UNCHANGED <<config, uploaded_file, text_input, text_data, summary, num_questions,
                   difficulty, pressed, path, keywords, quiz, service, sent, shown,
                   calls, arg>>

\* lines 146-147 and 171-172: the call of generate_questions
Generate ==
    /\ pc \in {"doc_call", "kw_call"}
    /\ \E svc \in ServiceOutcomes :
        LET r == generate_questions(prompt, num_questions, difficulty, svc)
        IN  /\ service' = svc
            /\ sent' = sent \o r.sent
            /\ quiz' = r.value
            /\ pc' = IF r.raised THEN "crashed"
                     ELSE IF pc = "doc_call" THEN "doc_show" ELSE "kw_show"
    /\ UNCHANGED <<config, uploaded_file, text_input, text_data, summary, num_questions,
                   difficulty, pressed, path, keywords, prompt, shown, calls, arg>>

\* lines 149-150
DocShow ==
    /\ pc = "doc_show"
    /\ shown' = Append(shown, Show("markdown", quiz))
    /\ pc' = "download"
    /\ UNCHANGED <<config, uploaded_file, text_input, text_data, summary, num_questions,
                   difficulty, pressed, path, keywords, prompt, quiz, service, sent,
                   calls, arg>>

\* lines 174-176
KeywordShow ==
    /\ pc = "kw_show"
    /\ shown' = shown \o <<Show("markdown", TopicsHeading \o str_join(CommaSpace, keywords)),
                           Show("markdown", quiz)>>
    /\ pc' = "download"
    /\ UNCHANGED <<config, uploaded_file, text_input, text_data, summary, num_questions,
                   difficulty, pressed, path, keywords, prompt, quiz, service, sent,
                   calls, arg>>

\* lines 179-184: full_quiz_text is quiz on either path
Download ==
    /\ pc = "download"
    /\ shown' = Append(shown, Show("download_button", quiz))
    /\ pc' = "done"
    /\ UNCHANGED <<config, uploaded_file, text_input, text_data, summary, num_questions,
                   difficulty, pressed, path, keywords, prompt, quiz, service, sent,
                   calls, arg>>

\* the next interaction: Streamlit runs the script again from the top
Rerun ==
    /\ pc \in {"done", "stopped", "crashed"}
    /\ pc' = "start"
    /\ config' = "unset"
    /\ uploaded_file' = NoFile
    /\ text_input' = <<>>
    /\ text_data' = <<>>
    /\ summary' = <<>>
    /\ num_questions' = 0
    /\ difficulty' = <<>>
    /\ pressed' = FALSE
    /\ path' = "none"
    /\ keywords' = <<>>
    /\ prompt' = <<>>
    /\ quiz' = <<>>
    /\ service' = NoService
    /\ sent' = <<>>
    /\ shown' = <<>>
    /\ calls' = <<>>
    /\ arg' = 0

Next ==
    \/ Configure
    \/ ReadWidgets
    \/ SelectInput
    \/ ShowSummary
    \/ EmptyInput
    \/ QuizSettings
    \/ Button
    \/ Gate
    \/ DocPrompt
    \/ KeywordExtract
    \/ KeywordPrompt
    \/ Generate
    \/ DocShow
    \/ KeywordShow
    \/ Download
    \/ Rerun

Spec == Init /\ [][Next]_vars

(***************************************************************************)
(* extract_text_from_file on its own: Init draws the file object, the      *)
(* action applies the function.                                            *)
(***************************************************************************)
Idle ==
    /\ config = "unset"
    /\ text_input = <<>>
    /\ summary = <<>>
    /\ num_questions = 0
    /\ difficulty = <<>>
    /\ pressed = FALSE
    /\ path = "none"
    /\ keywords = <<>>
    /\ prompt = <<>>
    /\ quiz = <<>>
    /\ service = NoService
    /\ sent = <<>>
    /\ shown = <<>>
    /\ calls = <<>>

InitExtract ==
    /\ pc = "extract"
    /\ uploaded_file \in ExtractInputs
    /\ text_data = <<>>
    /\ arg = 0
    /\ Idle

ApplyExtract ==
    /\ pc = "extract"
    /\ LET r == extract_text_from_file(uploaded_file)
       IN  /\ text_data' = r.value
           /\ shown' = shown \o [i \in 1..Len(r.errors) |-> Show("error", r.errors[i])]
           /\ pc' = IF r.raised THEN "crashed" ELSE "extracted"
    /\ calls' = Append(calls, Call("extract_text_from_file", uploaded_file.data))
    /\ uploaded_file' = file_after_extract(uploaded_file)
    /\ UNCHANGED <<config, text_input, summary, num_questions, difficulty, pressed,
                   path, keywords, prompt, quiz, service, sent, arg>>

NextExtract == ApplyExtract

SpecExtract == InitExtract /\ [][NextExtract]_vars

(***************************************************************************)
(* generate_summary and extract_keywords on their own.                     *)
(***************************************************************************)
InitText ==
    /\ pc = "text"
    /\ uploaded_file = NoFile
    /\ text_data \in Texts
    /\ arg \in 0..MaxArg
    /\ Idle

ApplySummary ==
    /\ pc = "text"
    /\ summary' = generate_summary(text_data, arg)
    /\ calls' = Append(calls, Call("generate_summary", text_data))
    /\ pc' = "summarized"
    /\ UNCHANGED <<config, uploaded_file, text_input, text_data, num_questions,
                   difficulty, pressed, path, keywords, prompt, quiz, service, sent,
                   shown, arg>>

ApplyKeywords ==
    /\ pc = "text"
    /\ keywords' = extract_keywords(text_data, arg)
    /\ calls' = Append(calls, Call("extract_keywords", text_data))
    /\ pc' = "ranked"
    /\ UNCHANGED <<config, uploaded_file, text_input, text_data, summary, num_questions,
                   difficulty, pressed, path, prompt, quiz, service, sent, shown, arg>>

NextText ==
    \/ ApplySummary
    \/ ApplyKeywords

SpecText == InitText /\ [][NextText]_vars

(***************************************************************************)
(* Properties.  Helper definitions used only to state them come first.     *)
(***************************************************************************)
\* x occurs in p as a contiguous run
Contains(p, x) ==
    \/ x = <<>>
    \/ \E i \in 1..(Len(p) - Len(x) + 1) :
        /\ p[i] = x[1]
        /\ p[i + Len(x) - 1] = x[Len(x)]
        /\ SubSeq(p, i, i + Len(x) - 1) = x

\* the file object as it was handed to extract_text_from_file
FileAsPassed == [uploaded_file EXCEPT !.pos = 0]

\* the UTF-8 encoding of one code point
EncodeChar(c) ==
    IF c < 128 THEN <<c>>
    ELSE IF c < 2048 THEN <<192 + (c \div 64), 128 + (c % 64)>>
    ELSE IF c < 65536
         THEN <<224 + (c \div 4096), 128 + ((c \div 64) % 64), 128 + (c % 64)>>
    ELSE <<240 + (c \div 262144), 128 + ((c \div 4096) % 64),
           128 + ((c \div 64) % 64), 128 + (c % 64)>>
utf8_encode(s) == Flatten([i \in 1..Len(s) |-> EncodeChar(s[i])], 1, Len(s))

\* the ASCII characters of a text or of a byte string, in order
AsciiOf(s) == Flatten([i \in 1..Len(s) |-> IF s[i] < 128 THEN <<s[i]>> ELSE <<>>], 1, Len(s))

\* a code point that a str can hold after decoding: no surrogate, at most U+10FFFF
IsScalar(c) == c \in 0..55295 \/ c \in 57344..1114111

\* C1: for a .pdf file whose primary parser throws while the secondary parser
\* would succeed on the document's bytes with non-empty text, the function
\* returns that text (the pages joined by newline), not the empty string.
C1_FallbackReturnsSecondaryText ==
    ( /\ pc = "extracted"
      /\ is_pdf(uploaded_file)
      /\ ~uploaded_file.closed
      /\ uploaded_file.primary.raised
      /\ ~uploaded_file.secondary.raised
      /\ join_pages(uploaded_file.secondary.value) # <<>> )
    => text_data = join_pages(uploaded_file.secondary.value)

\* C2: no exception escapes extract_text_from_file; when both PDF strategies fail
\* or the bytes of a non-PDF cannot be read it returns the empty string; for a
\* readable non-PDF it returns the decoded text, undecodable bytes dropped: every
\* ASCII byte survives in order, every character is a Unicode scalar value and
\* the text encodes to no more bytes than the file holds.
C2_ExtractFailsSoft ==
    pc # "extract" =>
        /\ pc = "extracted"
        /\ ( /\ is_pdf(uploaded_file)
             /\ primary_strategy(FileAsPassed).raised
             /\ secondary_strategy(after_read(FileAsPassed)).raised )
           => text_data = <<>>
        /\ (~is_pdf(uploaded_file) /\ uploaded_file.closed) => text_data = <<>>
        /\ (~is_pdf(uploaded_file) /\ ~uploaded_file.closed)
           => /\ AsciiOf(text_data) = AsciiOf(uploaded_file.data)
              /\ \A i \in 1..Len(text_data) : IsScalar(text_data[i])
              /\ Len(utf8_encode(text_data)) <= Len(uploaded_file.data)
              /\ (\A i \in 1..Len(uploaded_file.data) : uploaded_file.data[i] < 128)
                 => text_data = uploaded_file.data

\* C2 witness: a text file with undecodable bytes came back shorter but not empty
C2_Witness ==
    /\ pc = "extracted"
    /\ ~is_pdf(uploaded_file)
    /\ ~uploaded_file.closed
    /\ text_data # <<>>
    /\ Len(utf8_encode(text_data)) < Len(uploaded_file.data)

\* the external service failed: generate_content raised, or reading response.text did
ServiceFailed == service.kind \in {"raise_call", "raise_text"}

\* C3: when the service call fails, generate_questions does not raise: the run
\* goes on, the result is the error indicator followed by the failure
\* description, and that result is what is displayed and offered for download.
C3_ServiceFailureIsReported ==
    ServiceFailed =>
        /\ pc \in {"doc_show", "kw_show", "download", "done"}
        /\ quiz = ErrorGenerating \o service.text
        /\ pc \in {"download", "done"}
           => \E i \in 1..Len(shown) : shown[i] = Show("markdown", quiz)
        /\ pc = "done" => shown[Len(shown)] = Show("download_button", quiz)

\* C3 witness: a run whose service call failed has reached its end
C3_Witness ==
    /\ ServiceFailed
    /\ pc = "done"
    /\ shown[Len(shown)].w = "download_button"

\* the length of T without its leading and trailing whitespace, counted from both ends
LeadingSpaces(T) == Cardinality({i \in 1..Len(T) : \A j \in 1..i : IsSpace(T[j])})
TrailingSpaces(T) == Cardinality({i \in 1..Len(T) : \A j \in i..Len(T) : IsSpace(T[j])})
TrimmedLength(T) ==
    IF \A i \in 1..Len(T) : IsSpace(T[i]) THEN 0
    ELSE Len(T) - LeadingSpaces(T) - TrailingSpaces(T)

\* the thresholds a text of trimmed length len is tried against
Thresholds(len) == {m \in {0, len - 1, len, len + 1, MIN_LENGTH} : m >= 0}

Invoked(fn) == \E i \in 1..Len(calls) : calls[i].fn = fn

\* C6: has_enough_context(T, m) is true iff the trimmed length of T is at least m;
\* a pressed run takes the document path exactly when the trimmed blob has at
\* least 300 characters and the keyword path otherwise, and extract_keywords
\* is invoked only on the keyword path.
C6_GateDecidesPath ==
    /\ pc \in {"select", "branch", "gate"}
       => \A T \in {text_data, text_input} : \A len \in {TrimmedLength(T)} :
             \A m \in Thresholds(len) : has_enough_context(T, m) <=> (len >= m)
    /\ path \in {"none", "document", "keyword"}
    /\ path # "none" => (path = "document" <=> TrimmedLength(text_data) >= MIN_LENGTH)
    /\ (pressed /\ pc # "gate") => path # "none"
    /\ ~pressed => path = "none"
    /\ Invoked("extract_keywords") => path = "keyword"
    /\ (path = "keyword" /\ pc \notin {"kw_extract"}) => Invoked("extract_keywords")

\* C6 witness: a blob of exactly 300 characters after trimming went the document way
C6_Witness ==
    /\ path = "document"
    /\ TrimmedLength(text_data) = MIN_LENGTH
    /\ Len(text_data) > MIN_LENGTH

\* the quiz, or the download of it, is on the page
QuizShown == \E i \in 1..Len(shown) : shown[i].w \in {"markdown", "download_button"}

\* C7: a run in which the button is pressed makes exactly one call of
\* generate_content, after the gate check and the prompt construction and before
\* anything of the result is displayed, a failed call included; a run in which
\* the button is not pressed or the blob is empty makes none.
C7_OneServiceCall ==
    /\ Len(sent) <= 1
    /\ sent # <<>> => /\ pressed
                      /\ text_data # <<>>
                      /\ Invoked("has_enough_context")
                      /\ path # "none"
                      /\ prompt # <<>>
                      /\ sent[1] = prompt
    /\ QuizShown => Len(sent) = 1
    /\ pc \in {"doc_call", "kw_call"} => (sent = <<>> /\ ~QuizShown)
    /\ (pressed /\ pc \in {"doc_show", "kw_show", "download", "done"}) => Len(sent) = 1
    /\ (~pressed \/ text_data = <<>>) => sent = <<>>

\* C7 witness: a pressed run whose only call failed has ended
C7_Witness ==
    /\ pc = "done"
    /\ pressed
    /\ ServiceFailed
    /\ Len(sent) = 1

\* the decimal digits of a slider value
Decimal(n) == IF n < 10 THEN <<48 + n>> ELSE <<48 + (n \div 10), 48 + (n % 10)>>

\* C8: the prompt contains the chosen count in decimal, the difficulty label and
\* the content source verbatim: on the document path the whole blob, on the
\* keyword path every keyword and the keywords joined by ", ".
C8_PromptEmbedsInputs ==
    prompt # <<>> =>
        /\ Contains(prompt, Decimal(num_questions))
        /\ difficulty \in Difficulties
        /\ Contains(prompt, difficulty)
        /\ path = "document" => Contains(prompt, text_data)
        /\ path = "keyword"
           => /\ \A k \in 1..Len(keywords) : Contains(prompt, keywords[k])
              /\ Contains(prompt, str_join(CommaSpace, keywords))
        /\ sent # <<>> => sent[1] = prompt

\* C8 witness: a keyword prompt with several keywords and a two-digit count was sent
C8_Witness ==
    /\ path = "keyword"
    /\ Len(keywords) >= 2
    /\ num_questions >= 10
    /\ sent = <<prompt>>

\* C10: with a file uploaded the blob is what extract_text_from_file returns for
\* it, whatever was pasted; if that is the empty string the run ends with the
\* supply-input notice, with no summary, gate check or service call; the
\* summarizer, the gate and the keyword extractor only ever get a non-empty blob.
C10_UploadTakesPrecedence ==
    /\ (uploaded_file.present /\ pc # "select")
       => /\ text_data = extract_text_from_file(FileAsPassed).value
          /\ calls # <<>>
          /\ calls[1] = Call("extract_text_from_file", uploaded_file.data)
          /\ text_data = <<>>
             => /\ pc \in {"branch", "done"}
                /\ pc = "done" => shown[Len(shown)].w = "info_supply_input"
                /\ Len(calls) = 1
                /\ summary = <<>>
                /\ path = "none"
                /\ sent = <<>>
    /\ \A i \in 1..Len(calls) :
          calls[i].fn \in {"generate_summary", "has_enough_context", "extract_keywords"}
          => calls[i].arg # <<>>

\* C10 witness: text was pasted, but the upload extracted to nothing and the run ended
C10_Witness ==
    /\ uploaded_file.present
    /\ str_strip(text_input) # <<>>
    /\ text_data = <<>>
    /\ pc = "done"

\* the tokens of the normalized text: lower-cased, [^a-zA-Z0-9 ] turned into spaces
Tokens(T) == str_split(sub_non_alnum(str_lower(T)))
Frequency(words, w) == Cardinality({i \in 1..Len(words) : words[i] = w})
FirstOccurrence(words, w) == SetMin({i \in 1..Len(words) : words[i] = w})

\* C4: every keyword is longer than 3 characters and no stopword, there are at
\* most max_keywords of them and no keyword occurs twice.
C4_KeywordsAreSignificant ==
    pc = "ranked" =>
        /\ \A i \in 1..Len(keywords) :
              /\ Len(keywords[i]) > 3
              /\ keywords[i] \notin stopwords
        /\ Len(keywords) <= arg
        /\ \A i, j \in 1..Len(keywords) : keywords[i] = keywords[j] => i = j

\* C4 witness: the text held a stopword of four letters and more significant
\* words than asked for, and as many keywords as asked for came back
C4_Witness ==
    /\ pc = "ranked"
    /\ arg >= 1
    /\ Len(keywords) = arg
    /\ \E i \in 1..Len(Tokens(text_data)) :
          Tokens(text_data)[i] \in stopwords /\ Len(Tokens(text_data)[i]) > 3
    /\ \E i \in 1..Len(Tokens(text_data)) :
          /\ Len(Tokens(text_data)[i]) > 3
          /\ Tokens(text_data)[i] \notin stopwords
          /\ \A k \in 1..Len(keywords) : keywords[k] # Tokens(text_data)[i]

\* the sentence units of a summary; the empty summary holds none
UnitsOf(s) == IF s = <<>> THEN <<>> ELSE split_sentences(s)

\* C5: the summary holds at most max_sentences sentence units, the first ones of
\* the text, and is never longer than the text; when the text has fewer units
\* than max_sentences, the summary is all of them joined by a space.
C5_SummaryIsBounded ==
    pc = "summarized" =>
        /\ Len(UnitsOf(summary)) <= arg
        /\ \A k \in 1..Len(UnitsOf(summary)) :
              UnitsOf(summary)[k] = split_sentences(text_data)[k]
        /\ Len(summary) <= Len(text_data)
        /\ Len(split_sentences(text_data)) < arg
           => /\ summary = str_join(<<32>>, split_sentences(text_data))
              /\ UnitsOf(summary) = UnitsOf(text_data)

\* C5 witness: a text of more units than asked for, with a run of spaces between
\* two of the first ones, was cut down to the number asked for
C5_Witness ==
    /\ pc = "summarized"
    /\ arg >= 2
    /\ Len(split_sentences(text_data)) > arg
    /\ Len(UnitsOf(summary)) = arg
    /\ SubSeq(text_data, 1, Len(summary)) # summary

\* C9: the keywords come in order of non-increasing frequency, keywords of equal
\* frequency in the order of their first occurrence in the text, and no
\* significant word that was left out is more frequent than one that was kept.
C9_KeywordsAreRanked ==
    pc = "ranked" =>
        \A words \in {Tokens(text_data)} :
            /\ \A i, j \in 1..Len(keywords) :
                  i < j =>
                    \/ Frequency(words, keywords[i]) > Frequency(words, keywords[j])
                    \/ /\ Frequency(words, keywords[i]) = Frequency(words, keywords[j])
                       /\ FirstOccurrence(words, keywords[i])
                            < FirstOccurrence(words, keywords[j])
            /\ \A k \in 1..Len(keywords) : \A i \in 1..Len(words) :
                  ( /\ is_keyword(words[i])
                    /\ \A kk \in 1..Len(keywords) : keywords[kk] # words[i] )
                  => Frequency(words, words[i]) <= Frequency(words, keywords[k])

\* C9 witness: two keywords of equal frequency were kept, behind a more frequent
\* one that occurs later in the text than the first of them
C9_Witness ==
    /\ pc = "ranked"
    /\ Len(keywords) = 3
    /\ \A words \in {Tokens(text_data)} :
          /\ Frequency(words, keywords[1]) > Frequency(words, keywords[2])
          /\ Frequency(words, keywords[2]) = Frequency(words, keywords[3])
          /\ FirstOccurrence(words, keywords[2]) < FirstOccurrence(words, keywords[1])

====
